---- MODULE Spec2Model ----
(***************************************************************************)
(* Model of planar_mt.cpp: the multi-threaded counter of planar Langford   *)
(* sequences.  solve<n>() starts kMaxThreads detached threads, each        *)
(* running dfs<n>() with its own thread_id; the threads share the vector   *)
(* `results`, the counter `num_running` and the mutex `mtx`.  The caller   *)
(* polls num_running under the mutex and then runs unique_count<n>().      *)
(***************************************************************************)
EXTENDS Integers, Sequences, FiniteSets, TLC

(***************************************************************************)
(* Bounds of the model and constants of the program.                       *)
(***************************************************************************)
\* largest template argument n of the serial specification
MaxN == 8
\* largest small thread count tried besides the program's own kMaxThreads
MaxThreads == 2
\* longest ledger handed to unique_count by the ledger specification
MaxLedger == 4
\* ledger entries of the ledger specification are arrays over 0..MaxEntry
MaxEntry == 1
\* iterations of dfs followed per thread for the arguments above MaxN
MaxWideSteps == 24

kMaxThreads == 511
\* the argument of the first run of the driver, run<3>: the run the fully
\* interleaved specification follows
FirstRun == 3
kMaxN == 31
\* the multiplier of the partition hash
Mersenne == 131071

\* owner values of the mutex: a thread id, the caller of solve, or nobody
Free == 0 - 2
Caller == 0 - 1
\* content of an array cell that was never written
Undef == 0 - 1

VARIABLES
    n,            \* template argument of solve<n>, dfs<n>, unique_count<n>
    num_threads,  \* the configured thread count (kMaxThreads in the source)
    mainpc,       \* position of the caller inside solve
    thread_id,    \* loop variable of the thread creation loop in solve
    done,         \* local `done` of solve
    ret,          \* value returned by solve (Undef before the return)
    results,      \* the shared vector of Positions<n>
    num_running,  \* the shared completion counter
    mtx,          \* owner of the mutex
    pcw,          \* position of every thread ("none": not created)
    local         \* locals of dfs for every thread that is inside dfs

vars == <<n, num_threads, mainpc, thread_id, done, ret, results, num_running,
          mtx, pcw, local>>

(***************************************************************************)
(* Integer helpers: the bit operations of the source on naturals.          *)
(***************************************************************************)
TestBit(x, b) == (x \div (2 ^ b)) % 2 = 1

\* the index of the most significant 1-bit taken instead (one plus it)
RECURSIVE ffsll_Highest(_)
ffsll_Highest(x) == IF x = 0 THEN 0 ELSE 1 + ffsll_Highest(x \div 2)

\* __builtin_ffsll: one plus the index of the least significant 1-bit, 0 for 0
RECURSIVE ffsll(_)
ffsll(x) == IF x = 0 THEN 0 ELSE IF x % 2 = 1 THEN 1 ELSE 1 + ffsll(x \div 2)

\* the most significant 1-bit cleared instead
RECURSIVE ClearLowestBit_Highest(_)
ClearLowestBit_Highest(x) ==
    IF x <= 1 THEN 0 ELSE 2 * ClearLowestBit_Highest(x \div 2) + (x % 2)

\* x & (x - 1): clears the least significant 1-bit
RECURSIVE ClearLowestBit(_)
ClearLowestBit(x) ==
    IF x = 0 THEN 0
    ELSE IF x % 2 = 1 THEN x - 1
    ELSE 2 * ClearLowestBit(x \div 2)

\* x | (1 << b)
OrBit(x, b) == IF TestBit(x, b) THEN x ELSE x + 2 ^ b

\* x ^ (1 << b)
XorBit(x, b) == IF TestBit(x, b) THEN x - 2 ^ b ELSE x + 2 ^ b

\* conversion to int8_t
ToInt8(x) == ((x + 128) % 256) - 128

RECURSIVE PowMod(_, _, _)
PowMod(b, e, w) == IF e = 0 THEN 1 % w ELSE (b * PowMod(b, e - 1, w)) % w

(***************************************************************************)
(* dfs<n>: constants, the frame stack, the per-level arrays.               *)
(***************************************************************************)
two_n(nn) == 2 * nn
\* nn1 >> k, with nn1 = lsb << (two_n - 1): the bit of position k
PositionBit(nn, k) == two_n(nn) - 1 - k
\* availability[0] = msb | (msb - 1): bits 0..n-1 set
FullAvail(nn) == 2 ^ nn - 1

k_limit(nn) == ToInt8(IF nn > 19 THEN 8 + (nn \div 3) ELSE nn - 5)

\* a stack frame is <<k, m, d, num_open>>
Frame(k, m, d, no) == <<k, m, d, no>>

\* the array `open` declared two cells short, as open[4 * n]
InitLocal_ShortOpen(nn) ==
    [stack |-> <<Frame(0, 0 - 1, 0, 0)>>,
     availability |-> [i \in 0..(2 * nn) |-> IF i = 0 THEN FullAvail(nn) ELSE Undef],
     pos |-> [i \in 0..(nn - 1) |-> Undef],
     open |-> [i \in 0..(4 * nn - 1) |-> IF i < 2 THEN 0 ELSE Undef]]

\* locals of dfs after `push(0, -1, 0, 0)`
InitLocal(nn) ==
    [stack |-> <<Frame(0, 0 - 1, 0, 0)>>,
     availability |-> [i \in 0..(2 * nn) |-> IF i = 0 THEN FullAvail(nn) ELSE Undef],
     pos |-> [i \in 0..(nn - 1) |-> Undef],
     open |-> [i \in 0..(4 * nn + 1) |-> IF i < 2 THEN 0 ELSE Undef]]

\* place_macro(d): the effect of a frame on <<avail, openings[0], openings[1]>>
\* and on num_open
PlaceAvail(m, avail) == IF m >= 0 THEN XorBit(avail, m) ELSE avail

PlaceOpening(nn, k, m, o) ==
    IF m >= 0 THEN ClearLowestBit(o) ELSE OrBit(o, PositionBit(nn, k))

PlaceOpenings(nn, k, m, d, o) ==
    [e \in {0, 1} |-> IF e = d THEN PlaceOpening(nn, k, m, o[e]) ELSE o[e]]

\* the count taken down again by a close
PlaceNumOpen_Decrementing(m, no) ==
    IF m >= 0 THEN ToInt8(no - 1) ELSE ToInt8(no + 1)

PlaceNumOpen(m, no) == IF m >= 0 THEN no ELSE ToInt8(no + 1)

\* uint64_t(131071 * (openings[1] - openings[0]) + avail) % kMaxThreads,
\* computed modulo w throughout (the product does not fit 32-bit
\* integers); a negative sum wraps to sum + 2^64
HashNegative(o, avail) == (o[0] - o[1]) > (avail \div Mersenne)

Hash(o, avail, w) ==
    LET s == ((Mersenne % w) * ((o[1] - o[0]) % w) + (avail % w)) % w
    IN  IF HashNegative(o, avail) THEN (s + PowMod(2, 64, w)) % w ELSE s

\* the test made at every depth from k_limit on
OtherThreadsNode_FromLimit(nn, w, tid, k, o, avail) ==
    /\ w > 1
    /\ k >= k_limit(nn)
    /\ Hash(o, avail, w) # tid

\* the test that makes a thread abandon the node reached at depth k
OtherThreadsNode(nn, w, tid, k, o, avail) ==
    /\ w > 1
    /\ k = k_limit(nn)
    /\ Hash(o, avail, w) # tid

\* the offset taken one too large (m = k - k' - 1)
ImpliedM_OffByOne(nn, k, o) == ToInt8(ToInt8(k - two_n(nn) - 1) + ffsll(o))

\* m = offset + __builtin_ffsll(openings[d]) with offset = k - two_n - 2
ImpliedM(nn, k, o) == ToInt8(ToInt8(k - two_n(nn) - 2) + ffsll(o))

\* the rule left out: a close of value 1 is pushed at any depth
ReversalOk_Always(nn, k, m) == TRUE

\* the rule one slot too strict: value 1 must close before slot n
ReversalOk_Strict(nn, k, m) == m # 0 \/ k < nn

\* the rule one slot too late: value 1 may still close at slot n + 1
ReversalOk_OneLater(nn, k, m) == m # 0 \/ k <= nn + 1

\* the reversal rule on a close frame
ReversalOk(nn, k, m) == m # 0 \/ k <= nn

\* the test of the availability bit left out
ClosePushed_NoAvailTest(nn, k, avail, o) ==
    /\ o # 0
    /\ LET m == ImpliedM(nn, k, o)
       IN  /\ m >= 0 /\ m < nn
           /\ ReversalOk(nn, k, m)

\* the condition under which the close frame of side d is pushed
ClosePushed(nn, k, avail, o) ==
    /\ o # 0
    /\ LET m == ImpliedM(nn, k, o)
       IN  /\ m >= 0 /\ m < nn
           /\ TestBit(avail, m)
           /\ ReversalOk(nn, k, m)

CloseFrames(nn, k, avail, o, no, d) ==
    IF ClosePushed(nn, k, avail, o[d])
    THEN <<Frame(k, ImpliedM(nn, k, o[d]), d, no)>>
    ELSE <<>>

\* one pair too many: the open frames still pushed with n pairs opened
OpenPushed_OneMore(nn, no) == no <= nn

OpenPushed(nn, no) == no < nn

OpenFrames(nn, k, no) ==
    IF OpenPushed(nn, no)
    THEN <<Frame(k, 0 - 1, 1, no), Frame(k, 0 - 1, 0, no)>>
    ELSE <<>>

\* the frames pushed for the node at depth k, in push order
Children(nn, k, avail, o, no) ==
    CloseFrames(nn, k, avail, o, no, 0) \o CloseFrames(nn, k, avail, o, no, 1)
        \o OpenFrames(nn, k, no)

Top(s) == s[Len(s)]
Pop(s) == SubSeq(s, 1, Len(s) - 1)

\* the frame applied in place: the state of the parent's level is
\* overwritten as well as copied to the next level
StepLocal_InPlace(nn, w, tid, l) ==
    LET f == Top(l.stack)
        k == f[1]
        m == f[2]
        d == f[3]
        no == f[4]
        o0 == [e \in {0, 1} |-> l.open[2 * k + e]]
        avail0 == l.availability[k]
        o == PlaceOpenings(nn, k, m, d, o0)
        avail == PlaceAvail(m, avail0)
        no1 == PlaceNumOpen(m, no)
        k1 == ToInt8(k + 1)
        pushed == IF k1 = two_n(nn) \/ OtherThreadsNode(nn, w, tid, k1, o, avail)
                  THEN <<>>
                  ELSE Children(nn, k1, avail, o, no1)
    IN  [stack |-> Pop(l.stack) \o pushed,
         availability |-> [l.availability EXCEPT ![k] = avail, ![k1] = avail],
         pos |-> IF m >= 0 THEN [l.pos EXCEPT ![m] = k] ELSE l.pos,
         open |-> [l.open EXCEPT ![2 * k] = o[0], ![2 * k + 1] = o[1],
                                 ![2 * k + 2] = o[0], ![2 * k + 3] = o[1]]]

\* one iteration of `while (top)`: the locals after it
StepLocal(nn, w, tid, l) ==
    LET f == Top(l.stack)
        k == f[1]
        m == f[2]
        d == f[3]
        no == f[4]
        o0 == [e \in {0, 1} |-> l.open[2 * k + e]]
        avail0 == l.availability[k]
        o == PlaceOpenings(nn, k, m, d, o0)
        avail == PlaceAvail(m, avail0)
        no1 == PlaceNumOpen(m, no)
        k1 == ToInt8(k + 1)
        pushed == IF k1 = two_n(nn) \/ OtherThreadsNode(nn, w, tid, k1, o, avail)
                  THEN <<>>
                  ELSE Children(nn, k1, avail, o, no1)
    IN  [stack |-> Pop(l.stack) \o pushed,
         availability |-> [l.availability EXCEPT ![k1] = avail],
         pos |-> IF m >= 0 THEN [l.pos EXCEPT ![m] = k] ELSE l.pos,
         open |-> [l.open EXCEPT ![2 * k + 2] = o[0], ![2 * k + 3] = o[1]]]

\* the iteration reaches `k == two_n`
StepIsLeaf(nn, l) == ToInt8(Top(l.stack)[1] + 1) = two_n(nn)

(***************************************************************************)
(* unique_count<n>: sort, then count the entries that differ from their    *)
(* predecessor.                                                            *)
(***************************************************************************)
\* operator< of std::array: lexicographic
RECURSIVE LexLessFrom(_, _, _)
LexLessFrom(a, b, i) ==
    IF i \notin DOMAIN a THEN FALSE
    ELSE IF a[i] < b[i] THEN TRUE
    ELSE IF b[i] < a[i] THEN FALSE
    ELSE LexLessFrom(a, b, i + 1)

LexLess(a, b) == LexLessFrom(a, b, 0)

\* std::sort: the same entries in non-decreasing order; the entry at place p
\* is the one with fewer than p entries below it and at least p not above it
Sort(r) ==
    LET idx == 1..Len(r)
        vals == {r[i] : i \in idx}
        Below(v) == Cardinality({i \in idx : LexLess(r[i], v)})
        Upto(v) == Cardinality({i \in idx : ~LexLess(v, r[i])})
    IN  [p \in idx |-> CHOOSE v \in vals : Below(v) < p /\ p <= Upto(v)]

\* the loop `for (i = 1; i < total; ++i) if (r[i] == r[i-1]) --unique;`
\* (r is 1-based here): one decrement for every i that passes the test
CountLoop(r, unique) ==
    unique - Cardinality({i \in 1..(Len(r) - 1) : r[i + 1] = r[i]})

\* the ledger left as it was appended
SortedResults_Unsorted(r) == r

\* equal entries merged into one while sorting
SortedResults_Merged(r) ==
    LET sorted == Sort(r)
    IN  SelectSeq([i \in DOMAIN sorted |->
                      IF i > 1 /\ sorted[i] = sorted[i - 1] THEN <<>> ELSE <<sorted[i]>>],
                  LAMBDA e : e # <<>>)

SortedResults(r) == Sort(r)

unique_count(r) == CountLoop(SortedResults(r), Len(r))

(***************************************************************************)
(* solve<n>: the caller.                                                   *)
(***************************************************************************)
\* the early return without the test of n % 4 == 2
Degenerate_NoMod2(nn) == nn <= 0 \/ nn > kMaxN \/ nn % 4 = 1

Degenerate(nn) == nn <= 0 \/ nn > kMaxN \/ nn % 4 = 1 \/ nn % 4 = 2

\* the test passing while one thread is still counted
AllFinished_AtMostOne(num) == num <= 1

\* `done = (num_running == 0)`
AllFinished(num) == num = 0

\* the value num_running starts from
InitialRunning(w) == w

Threads == 0..(num_threads - 1)

\* a lock() that returns whoever holds the mutex
LockGranted_Always(owner) == TRUE

\* mtx.lock() returns only when nobody holds the mutex
LockGranted(owner) == owner = Free

\* entry of solve: the early return, or the declaration of the shared state
SolveEntry ==
    /\ mainpc = "entry"
    /\ IF Degenerate(n)
       THEN /\ ret' = 0
            /\ mainpc' = "returned"
            /\ UNCHANGED <<num_running, thread_id>>
       ELSE /\ num_running' = InitialRunning(num_threads)
            /\ thread_id' = 0
            /\ mainpc' = "spawn"
            /\ UNCHANGED ret
    /\ UNCHANGED <<n, num_threads, done, results, mtx, pcw, local>>

\* one iteration of the thread creation loop: thread(...).detach()
Spawn ==
    /\ mainpc = "spawn"
    /\ thread_id < num_threads
    /\ pcw' = [pcw EXCEPT ![thread_id] = "start"]
    /\ thread_id' = thread_id + 1
    /\ UNCHANGED <<n, num_threads, mainpc, done, ret, results, num_running,
                   mtx, local>>

\* the loop ends; `bool done = false`
SpawnDone ==
    /\ mainpc = "spawn"
    /\ thread_id >= num_threads
    /\ done' = FALSE
    /\ mainpc' = "sleep"
    /\ UNCHANGED <<n, num_threads, thread_id, ret, results, num_running, mtx,
                   pcw, local>>

\* this_thread::sleep_for returns
Wake ==
    /\ mainpc = "sleep"
    /\ mainpc' = "lock"
    /\ UNCHANGED <<n, num_threads, thread_id, done, ret, results, num_running,
                   mtx, pcw, local>>

PollLock ==
    /\ mainpc = "lock"
    /\ LockGranted(mtx)
    /\ mtx' = Caller
    /\ mainpc' = "read"
    /\ UNCHANGED <<n, num_threads, thread_id, done, ret, results, num_running,
                   pcw, local>>

PollRead ==
    /\ mainpc = "read"
    /\ done' = AllFinished(num_running)
    /\ mainpc' = "unlock"
    /\ UNCHANGED <<n, num_threads, thread_id, ret, results, num_running, mtx,
                   pcw, local>>

PollUnlock ==
    /\ mainpc = "unlock"
    /\ mtx' = Free
    /\ mainpc' = IF done THEN "finalize" ELSE "sleep"
    /\ UNCHANGED <<n, num_threads, thread_id, done, ret, results, num_running,
                   pcw, local>>

\* `return unique_count<n>(results)`
Finalize ==
    /\ mainpc = "finalize"
    /\ results' = SortedResults(results)
    /\ ret' = unique_count(results)
    /\ mainpc' = "returned"
    /\ UNCHANGED <<n, num_threads, thread_id, done, num_running, mtx, pcw,
                   local>>

(***************************************************************************)
(* The threads: thread_func, with dfs<n> inlined.                          *)
(***************************************************************************)
Goto(t, p) == pcw' = [pcw EXCEPT ![t] = p]

SetLocal(t, l) ==
    local' = [u \in (DOMAIN local) \cup {t} |-> IF u = t THEN l ELSE local[u]]

\* dfs is entered: its locals are declared and the first frame is pushed
DfsEnter(t) ==
    /\ pcw[t] = "start"
    /\ SetLocal(t, InitLocal(n))
    /\ Goto(t, "loop")
    /\ UNCHANGED <<n, num_threads, mainpc, thread_id, done, ret, results,
                   num_running, mtx>>

\* one iteration of `while (top)`, up to `mtx.lock()` when it is a leaf
DfsStep(t) ==
    /\ pcw[t] = "loop"
    /\ local[t].stack # <<>>
    /\ SetLocal(t, StepLocal(n, num_threads, t, local[t]))
    /\ Goto(t, IF StepIsLeaf(n, local[t]) THEN "lock" ELSE "loop")
    /\ UNCHANGED <<n, num_threads, mainpc, thread_id, done, ret, results,
                   num_running, mtx>>

AppendLock(t) ==
    /\ pcw[t] = "lock"
    /\ LockGranted(mtx)
    /\ mtx' = t
    /\ Goto(t, "push_back")
    /\ UNCHANGED <<n, num_threads, mainpc, thread_id, done, ret, results,
                   num_running, local>>

\* results.push_back(pos)
PushBack(t) ==
    /\ pcw[t] = "push_back"
    /\ results' = Append(results, local[t].pos)
    /\ Goto(t, "unlock")
    /\ UNCHANGED <<n, num_threads, mainpc, thread_id, done, ret, num_running,
                   mtx, local>>

AppendUnlock(t) ==
    /\ pcw[t] = "unlock"
    /\ mtx' = Free
    /\ Goto(t, "loop")
    /\ UNCHANGED <<n, num_threads, mainpc, thread_id, done, ret, results,
                   num_running, local>>

\* `top` is 0: dfs returns and its locals are gone
DfsReturn(t) ==
    /\ pcw[t] = "loop"
    /\ local[t].stack = <<>>
    /\ local' = [u \in (DOMAIN local) \ {t} |-> local[u]]
    /\ Goto(t, "lock_done")
    /\ UNCHANGED <<n, num_threads, mainpc, thread_id, done, ret, results,
                   num_running, mtx>>

DoneLock(t) ==
    /\ pcw[t] = "lock_done"
    /\ LockGranted(mtx)
    /\ mtx' = t
    /\ Goto(t, "decrement")
    /\ UNCHANGED <<n, num_threads, mainpc, thread_id, done, ret, results,
                   num_running, local>>

\* the counter left as it is
Decremented_Not(num) == num

\* --num_running
Decremented(num) == num - 1

Decrement(t) ==
    /\ pcw[t] = "decrement"
    /\ num_running' = Decremented(num_running)
    /\ Goto(t, "unlock_done")
    /\ UNCHANGED <<n, num_threads, mainpc, thread_id, done, ret, results, mtx,
                   local>>

DoneUnlock(t) ==
    /\ pcw[t] = "unlock_done"
    /\ mtx' = Free
    /\ Goto(t, "exited")
    /\ UNCHANGED <<n, num_threads, mainpc, thread_id, done, ret, results,
                   num_running, local>>

(***************************************************************************)
(* Specifications.                                                         *)
(***************************************************************************)
InitWith(ns, ws) ==
    /\ n \in ns
    /\ num_threads \in ws
    /\ mainpc = "entry"
    /\ thread_id = 0
    /\ done = FALSE
    /\ ret = Undef
    /\ results = <<>>
    /\ num_running = 0
    /\ mtx = Free
    /\ pcw = [t \in 0..(num_threads - 1) |-> "none"]
    /\ local = <<>>

\* template arguments tried: negative, zero, every class modulo 4, above kMaxN
ArgsUpTo(max) == ((0 - 1)..max) \cup {kMaxN + 1}

Init == InitWith(ArgsUpTo(FirstRun), 1..MaxThreads)

MainStep ==
    \/ SolveEntry
    \/ Spawn
    \/ SpawnDone
    \/ Wake
    \/ PollLock
    \/ PollRead
    \/ PollUnlock
    \/ Finalize

ThreadStep(t) ==
    \/ DfsEnter(t)
    \/ DfsStep(t)
    \/ AppendLock(t)
    \/ PushBack(t)
    \/ AppendUnlock(t)
    \/ DfsReturn(t)
    \/ DoneLock(t)
    \/ Decrement(t)
    \/ DoneUnlock(t)

\* every interleaving of the caller and the threads
Next ==
    \/ MainStep
    \/ \E t \in DOMAIN pcw : ThreadStep(t)


Spec == Init /\ [][Next]_vars

AnyThreadStep == \E t \in DOMAIN pcw : ThreadStep(t)

\* Fair scheduling: the caller keeps running, and when again and again some
\* thread can take a step (the caller releases the mutex after every poll and
\* sleeps), some thread does.
FairSpec == Spec /\ WF_vars(MainStep) /\ SF_vars(AnyThreadStep)

\* The serial schedule: threads are not preempted.  A thread that has entered
\* dfs runs until it has exited, threads run in the order of their creation,
\* and the caller runs only while no thread is between entry and exit.
Midway(t) == pcw[t] \notin {"none", "start", "exited"}

SerialMainStep ==
    /\ {t \in DOMAIN pcw : Midway(t)} = {}
    /\ MainStep

\* the thread the serial schedule runs next, if the caller sleeps
SerialRunnable ==
    IF mainpc = "sleep"
    THEN {t \in DOMAIN pcw :
             /\ pcw[t] # "exited"
             /\ IF t = 0 THEN TRUE ELSE pcw[t - 1] = "exited"}
    ELSE {}

SerialNext ==
    \/ SerialMainStep
    \/ \E t \in SerialRunnable : ThreadStep(t)

SerialInit == InitWith(ArgsUpTo(MaxN), 1..MaxThreads)

\* the program as compiled: kMaxThreads threads
FullInit == InitWith(ArgsUpTo(MaxN), {kMaxThreads})

FullSpec == FullInit /\ [][SerialNext]_vars

SerialSpec == SerialInit /\ [][SerialNext]_vars

\* unique_count<n> alone, on any ledger: entries are arrays of n values
LedgerEntries(nn) == [0..(nn - 1) -> 0..MaxEntry]

RECURSIVE LedgersUpTo(_, _)
LedgersUpTo(nn, len) ==
    IF len = 0 THEN {<<>>}
    ELSE LET shorter == LedgersUpTo(nn, len - 1)
         IN  shorter \cup {Append(r, e) : r \in shorter, e \in LedgerEntries(nn)}

LedgerInit ==
    /\ n \in {1, 2}
    /\ num_threads = 1
    /\ mainpc = "finalize"
    /\ thread_id = 1
    /\ done = TRUE
    /\ ret = Undef
    /\ results \in LedgersUpTo(n, MaxLedger)
    /\ num_running = 0
    /\ mtx = Free
    /\ pcw = [t \in {0} |-> "exited"]
    /\ local = <<>>

LedgerSpec == LedgerInit /\ [][Finalize]_vars

(***************************************************************************)
(* dfs<n> for the n whose bitsets need all 64 bits.  A word is held as the *)
(* set of the indices of its 1-bits; the partition hash is computed on     *)
(* 12-bit limbs, least significant first, so that the signed 64-bit range  *)
(* of its product and sum can be tested exactly.                           *)
(***************************************************************************)
SetMin(S) == CHOOSE x \in S : \A y \in S : x <= y

\* __builtin_ffsll on a word held as a set of bit indices
BitsFfsll(S) == IF S = {} THEN 0 ELSE SetMin(S) + 1

\* x & (x - 1)
BitsClearLowest(S) == IF S = {} THEN {} ELSE S \ {SetMin(S)}

\* x ^ (1 << b)
BitsXor(S, b) == IF b \in S THEN S \ {b} ELSE S \cup {b}

RECURSIVE LimbValue(_, _, _)
LimbValue(S, i, j) ==
    IF j = 12 THEN 0
    ELSE (IF (12 * (i - 1) + j) \in S THEN 2 ^ j ELSE 0) + LimbValue(S, i, j + 1)

ToLimbs(S) == [i \in 1..7 |-> LimbValue(S, i, 0)]

RECURSIVE LimbsLessFrom(_, _, _)
LimbsLessFrom(A, B, i) ==
    IF i = 0 THEN FALSE
    ELSE IF A[i] < B[i] THEN TRUE
    ELSE IF A[i] > B[i] THEN FALSE
    ELSE LimbsLessFrom(A, B, i - 1)

LimbsLess(A, B) == LimbsLessFrom(A, B, 7)

\* A - B for A >= B
RECURSIVE LimbsSubFrom(_, _, _, _)
LimbsSubFrom(A, B, i, borrow) ==
    IF i > 7 THEN <<>>
    ELSE LET diff == A[i] - B[i] - borrow
         IN  IF diff < 0
             THEN <<diff + 2 ^ 12>> \o LimbsSubFrom(A, B, i + 1, 1)
             ELSE <<diff>> \o LimbsSubFrom(A, B, i + 1, 0)

RECURSIVE LimbsAddFrom(_, _, _, _)
LimbsAddFrom(A, B, i, carry) ==
    IF i > 7 THEN <<>>
    ELSE LET sum == A[i] + B[i] + carry
         IN  <<sum % (2 ^ 12)>> \o LimbsAddFrom(A, B, i + 1, sum \div (2 ^ 12))

RECURSIVE LimbsMulFrom(_, _, _, _)
LimbsMulFrom(A, c, i, carry) ==
    IF i > 7 THEN <<>>
    ELSE LET prod == A[i] * c + carry
         IN  <<prod % (2 ^ 12)>> \o LimbsMulFrom(A, c, i + 1, prod \div (2 ^ 12))

RECURSIVE LimbsModFrom(_, _, _)
LimbsModFrom(A, w, i) ==
    IF i > 7 THEN 0
    ELSE ((A[i] % w) + ((2 ^ 12) % w) * LimbsModFrom(A, w, i + 1)) % w

\* the magnitude is 2^63 or more: bit 63 is bit 3 of limb 6
AtLeastTwoTo63(P) == P[7] > 0 \/ P[6] >= 8

TwoTo63 == <<0, 0, 0, 0, 0, 8, 0>>

\* 131071 * (openings[1] - openings[0]) + avail in int64_t, then the
\* conversion to uint64_t and the remainder modulo w.  `overflow` tells
\* whether the product or the sum leaves the range of int64_t; `value` is the
\* remainder when they do not.
HashSum(o, avail, w) ==
    LET L0 == ToLimbs(o[0])
        L1 == ToLimbs(o[1])
        La == ToLimbs(avail)
        negative == LimbsLess(L1, L0)
        D == IF negative THEN LimbsSubFrom(L0, L1, 1, 0) ELSE LimbsSubFrom(L1, L0, 1, 0)
        P == LimbsMulFrom(D, Mersenne, 1, 0)
        pm == LimbsModFrom(P, w, 1)
        am == LimbsModFrom(La, w, 1)
    IN  [overflow |->
             IF negative
             THEN AtLeastTwoTo63(P) /\ P # TwoTo63
             ELSE AtLeastTwoTo63(P) \/ AtLeastTwoTo63(LimbsAddFrom(P, La, 1, 0)),
         value |->
             IF ~negative THEN (pm + am) % w
             ELSE IF LimbsLess(La, P) THEN (PowMod(2, 64, w) + w - pm + am) % w
             ELSE (w - pm + am) % w]

\* locals of dfs after `push(0, -1, 0, 0)`, words as sets of bit indices;
\* `iterations` counts the iterations of `while (top)` made so far and
\* `overflowed` names the arithmetic of the last iteration (here: of the
\* declarations) whose result left the range of its type
WideInitLocal(nn) ==
    [stack |-> <<Frame(0, 0 - 1, 0, 0)>>,
     availability |-> [i \in 0..(2 * nn) |-> IF i = 0 THEN 0..(nn - 1) ELSE Undef],
     pos |-> [i \in 0..(nn - 1) |-> Undef],
     open |-> [i \in 0..(4 * nn + 1) |-> IF i < 2 THEN {} ELSE Undef],
     iterations |-> 0,
     overflowed |-> (IF nn - 1 >= 31 THEN {"int32"} ELSE {})
                        \cup (IF two_n(nn) - 1 >= 63 THEN {"int64"} ELSE {})]

WideImpliedM(nn, k, S) == ToInt8(ToInt8(k - two_n(nn) - 2) + BitsFfsll(S))

WideClosePushed(nn, k, avail, S) ==
    /\ S # {}
    /\ LET m == WideImpliedM(nn, k, S)
       IN  /\ m >= 0 /\ m < nn
           /\ m \in avail
           /\ ReversalOk(nn, k, m)

WideCloseFrames(nn, k, avail, o, no, d) ==
    IF WideClosePushed(nn, k, avail, o[d])
    THEN <<Frame(k, WideImpliedM(nn, k, o[d]), d, no)>>
    ELSE <<>>

WideChildren(nn, k, avail, o, no) ==
    WideCloseFrames(nn, k, avail, o, no, 0) \o WideCloseFrames(nn, k, avail, o, no, 1)
        \o OpenFrames(nn, k, no)

InInt8(x) == (0 - 128) <= x /\ x <= 127

\* one iteration of `while (top)`.  When the hash overflows the behaviour is
\* undefined: `kept` is then the outcome of the partition test.
WideStepLocal(nn, w, tid, l, kept) ==
    LET f == Top(l.stack)
        k == f[1]
        m == f[2]
        d == f[3]
        no == f[4]
        o0 == [e \in {0, 1} |-> l.open[2 * k + e]]
        avail0 == l.availability[k]
        o == [e \in {0, 1} |->
                 IF e # d THEN o0[e]
                 ELSE IF m >= 0 THEN BitsClearLowest(o0[e])
                 ELSE o0[e] \cup {PositionBit(nn, k)}]
        avail == IF m >= 0 THEN BitsXor(avail0, m) ELSE avail0
        no1 == PlaceNumOpen(m, no)
        k1 == ToInt8(k + 1)
        tested == w > 1 /\ k1 # two_n(nn) /\ k1 = k_limit(nn)
        h == HashSum(o, avail, w)
        abandoned == tested /\ (IF h.overflow THEN ~kept ELSE h.value # tid)
        expanded == k1 # two_n(nn) /\ ~abandoned
        pushed == IF expanded THEN WideChildren(nn, k1, avail, o, no1) ELSE <<>>
        int8 == \/ ~InInt8(k + 1)
                \/ m < 0 /\ ~InInt8(no + 1)
                \/ expanded /\ ~InInt8(k1 - two_n(nn) - 2)
                \/ expanded /\ \E e \in {0, 1} :
                       o[e] # {} /\ ~InInt8(ToInt8(k1 - two_n(nn) - 2) + BitsFfsll(o[e]))
        int32 == (m >= 31) \/ (\E b \in avail : b >= 31)
        int64 == \E e \in {0, 1} : \E b \in o[e] : b >= 63
    IN  [stack |-> Pop(l.stack) \o pushed,
         availability |-> [l.availability EXCEPT ![k1] = avail],
         pos |-> IF m >= 0 THEN [l.pos EXCEPT ![m] = k] ELSE l.pos,
         open |-> [l.open EXCEPT ![2 * k + 2] = o[0], ![2 * k + 3] = o[1]],
         iterations |-> l.iterations + 1,
         overflowed |-> (IF int8 THEN {"int8"} ELSE {})
                            \cup (IF int32 THEN {"int32"} ELSE {})
                            \cup (IF int64 THEN {"int64"} ELSE {})
                            \cup (IF tested /\ h.overflow THEN {"hash"} ELSE {})]

WideDfsEnter(t) ==
    /\ pcw[t] = "start"
    /\ SetLocal(t, WideInitLocal(n))
    /\ Goto(t, "loop")
    /\ UNCHANGED <<n, num_threads, mainpc, thread_id, done, ret, results,
                   num_running, mtx>>

\* one iteration of `while (top)`; for n above MaxN only the first
\* MaxWideSteps iterations of a thread are followed
WideDfsStep(t) ==
    /\ pcw[t] = "loop"
    /\ local[t].stack # <<>>
    /\ n <= MaxN \/ local[t].iterations < MaxWideSteps
    /\ \E kept \in BOOLEAN :
           SetLocal(t, WideStepLocal(n, num_threads, t, local[t], kept))
    /\ Goto(t, IF StepIsLeaf(n, local[t]) THEN "lock" ELSE "loop")
    /\ UNCHANGED <<n, num_threads, mainpc, thread_id, done, ret, results,
                   num_running, mtx>>

WideThreadStep(t) ==
    \/ WideDfsEnter(t)
    \/ WideDfsStep(t)
    \/ AppendLock(t)
    \/ PushBack(t)
    \/ AppendUnlock(t)
    \/ DfsReturn(t)
    \/ DoneLock(t)
    \/ Decrement(t)
    \/ DoneUnlock(t)

WideNext ==
    \/ SerialMainStep
    \/ \E t \in SerialRunnable : WideThreadStep(t)

\* the valid arguments up to MaxN, and those with k_limit = 8 + n / 3 up to
\* kMaxN
WideArgs == {nn \in 1..kMaxN : ~Degenerate(nn) /\ (nn <= MaxN \/ nn > 19)}

WideInit == InitWith(WideArgs, 1..MaxThreads)

WideSpec == WideInit /\ [][WideNext]_vars

(***************************************************************************)
(* The published counts the driver compares with.                          *)
(***************************************************************************)
known_results ==
    [i \in 0..63 |->
        CASE i = 3 -> 1
          [] i = 4 -> 0
          [] i = 7 -> 0
          [] i = 8 -> 4
          [] i = 11 -> 16
          [] i = 12 -> 40
          [] i = 15 -> 194
          [] i = 16 -> 274
          [] i = 19 -> 2384
          [] i = 20 -> 4719
          [] i = 23 -> 31856
          [] i = 24 -> 62124
          [] i = 27 -> 426502
          [] i = 28 -> 817717
          [] OTHER -> IF i >= 29 /\ (i % 4 = 3 \/ i % 4 = 0) THEN 0 - 1 ELSE 0]

(***************************************************************************)
(* print<n>: the slot array it fills, or PrintFailed when an assertion     *)
(* of its first loop fails.                                                *)
(***************************************************************************)
PrintFailed == <<>>

RECURSIVE PrintFill(_, _, _, _)
PrintFill(nn, pos, m, s) ==
    IF m > nn THEN s
    ELSE LET k2 == pos[m - 1]
             k1 == k2 - m - 1
         IN  IF /\ 0 <= k1
                /\ k2 < 2 * nn
                /\ s[k1] = 0 - 1
                /\ s[k2] = 0 - 1
             THEN PrintFill(nn, pos, m + 1, [s EXCEPT ![k1] = m, ![k2] = m])
             ELSE PrintFailed

\* no assertion of print fails on pos
PrintAssertionsHold(nn, pos) ==
    LET s == PrintFill(nn, pos, 1, [i \in 0..(2 * nn - 1) |-> 0 - 1])
    IN  /\ s # PrintFailed
        /\ \A i \in 0..(2 * nn - 1) : 0 <= s[i] /\ s[i] <= nn

(***************************************************************************)
(* Properties.                                                             *)
(***************************************************************************)
Returned == mainpc = "returned"

\* the arguments the published fixture names
FixtureArgs == {3, 4, 7, 8, 11, 12, 15, 16, 19, 20}

EarlyReturnArg(nn) == nn <= 0 \/ nn > 31 \/ nn % 4 \in {1, 2}

\* C2: for n <= 0, n > 31 or n mod 4 in {1, 2}, solve returns 0 and nothing
\* else happens: no thread is created, no frame is pushed or popped (no
\* thread has locals), the ledger, the counter and the mutex are untouched.
C2_EarlyReturn ==
    EarlyReturnArg(n) =>
        /\ mainpc \in {"entry", "returned"}
        /\ Returned => ret = 0
        /\ \A t \in DOMAIN pcw : pcw[t] = "none"
        /\ local = <<>>
        /\ results = <<>>
        /\ num_running = 0
        /\ mtx = Free

C2_Witness == Returned /\ n % 4 = 2 /\ ret = 0

\* value m (1..n) of a ledger entry closes at pos[m-1] and opens m+1 before
ClosingSlot(pos, m) == pos[m - 1]
OpeningSlot(pos, m) == pos[m - 1] - m - 1

\* the Langford spacing law on a ledger entry
Langford(nn, pos) ==
    /\ \A m \in 1..nn :
          /\ ClosingSlot(pos, m) \in 0..(2 * nn - 1)
          /\ OpeningSlot(pos, m) \in 0..(2 * nn - 1)
    /\ \A i \in 0..(2 * nn - 1) :
          Cardinality({m \in 1..nn : ClosingSlot(pos, m) = i})
              + Cardinality({m \in 1..nn : OpeningSlot(pos, m) = i}) = 1

\* C3: every ledger entry obeys the spacing law -- both slots of every value
\* are among the 2n slots, every slot holds exactly one occurrence -- and
\* passes the assertions of print.
C3_LedgerEntriesLangford ==
    \A i \in DOMAIN results :
        /\ Langford(n, results[i])
        /\ PrintAssertionsHold(n, results[i])

C3_Witness == n = 8 /\ Len(results) = 4 /\ Langford(n, results[1])

\* a thread stands at a leaf: `k == two_n`, at or after mtx.lock(), before
\* the push_back
AtLeaf(t) == pcw[t] \in {"lock", "push_back"}

\* the arc of value index m on the path that ends in the locals l: it opens
\* at slot Opens and closes at slot pos[m]
Closes(l, m) == l.pos[m]
Opens(l, m) == l.pos[m] - m - 2

\* side d holds the arc of m: its opening slot joined the pending set of d
\* when it was placed, stayed in it up to the closing slot, left it there
ArcOnSide(nn, l, m, d) ==
    LET a == Opens(l, m)
        c == Closes(l, m)
        b == PositionBit(nn, a)
    IN  /\ 0 <= a /\ c < 2 * nn
        /\ ~TestBit(l.open[2 * a + d], b)
        /\ \A j \in a..(c - 1) : TestBit(l.open[2 * j + 2 + d], b)
        /\ ~TestBit(l.open[2 * c + 2 + d], b)

\* the arcs of m1 and m2 partially overlap
Crossing(l, m1, m2) ==
    /\ Opens(l, m1) < Opens(l, m2)
    /\ Opens(l, m2) < Closes(l, m1)
    /\ Closes(l, m1) < Closes(l, m2)

NonCrossingSides(nn, l) ==
    /\ \A m \in 0..(nn - 1) :
          Cardinality({d \in {0, 1} : ArcOnSide(nn, l, m, d)}) = 1
    /\ \A d \in {0, 1} : \A m1, m2 \in 0..(nn - 1) :
          (ArcOnSide(nn, l, m1, d) /\ ArcOnSide(nn, l, m2, d))
              => ~Crossing(l, m1, m2)

\* C4: on every completed path about to be appended, every arc lies on
\* exactly one side, and no two arcs of the same side partially overlap.
C4_SidesNonCrossing ==
    \A t \in DOMAIN pcw : AtLeaf(t) => NonCrossingSides(n, local[t])

C4_Witness ==
    \E t \in DOMAIN pcw :
        /\ AtLeaf(t) /\ n = 8
        /\ \E m1, m2 \in 0..(n - 1) :
              /\ ArcOnSide(n, local[t], m1, 1) /\ ArcOnSide(n, local[t], m2, 1)
              /\ Opens(local[t], m1) < Opens(local[t], m2)
              /\ Closes(local[t], m2) < Closes(local[t], m1)

\* the leaves of the whole tree below frame f, applied to the state
\* <<avail, o>> of its parent: dfs with one thread, as a recursion
RECURSIVE SubtreeLeaves(_, _, _, _, _)
SubtreeLeaves(nn, f, availIn, oIn, posIn) ==
    LET k == f[1]
        m == f[2]
        o == PlaceOpenings(nn, k, m, f[3], oIn)
        avail == PlaceAvail(m, availIn)
        pos == IF m >= 0 THEN [posIn EXCEPT ![m] = k] ELSE posIn
        ch == Children(nn, k + 1, avail, o, PlaceNumOpen(m, f[4]))
    IN  IF k + 1 = two_n(nn) THEN {pos}
        ELSE UNION {SubtreeLeaves(nn, ch[i], avail, o, pos) : i \in DOMAIN ch}

UnpartitionedSolutions(nn) ==
    SubtreeLeaves(nn, Frame(0, 0 - 1, 0, 0), FullAvail(nn),
                  [e \in {0, 1} |-> 0], [i \in 0..(nn - 1) |-> Undef])

AllExited == \A t \in DOMAIN pcw : pcw[t] = "exited"

Entries(r) == {r[i] : i \in DOMAIN r}

\* C5: once all threads have exited, the set of entries they appended is the
\* set a single thread finds in the unpartitioned tree, whatever the thread
\* count, and the value returned is the size of that set.
C5_PartitionComplete ==
    (AllExited /\ mainpc \in {"finalize", "returned"}) =>
        /\ Entries(results) = UnpartitionedSolutions(n)
        /\ Returned => ret = Cardinality(UnpartitionedSolutions(n))

C5_Witness ==
    /\ Returned /\ n = 8 /\ num_threads > 1 /\ ret = 4
    /\ Cardinality(Entries(results)) = 4

\* C6 (as claimed): no leaf is reached by two threads -- two threads never
\* stand at the leaf of the same path.
C6_LeafOwnedByOneThread ==
    \A t, u \in DOMAIN pcw :
        (t # u /\ AtLeaf(t) /\ AtLeaf(u)) =>
            <<local[t].pos, local[t].open>> # <<local[u].pos, local[u].open>>

\* the number of maximal runs of equal entries
Runs(r) ==
    Cardinality({i \in DOMAIN r : IF i = 1 THEN TRUE ELSE r[i] # r[i - 1]})

Sorted(r) == \A i \in 1..(Len(r) - 1) : ~LexLess(r[i + 1], r[i])

Occurrences(r, e) == Cardinality({i \in DOMAIN r : r[i] = e})

SameEntries(r1, r2) ==
    \A e \in Entries(r1) \cup Entries(r2) : Occurrences(r1, e) = Occurrences(r2, e)

\* C7: whatever the ledger holds, unique_count leaves it sorted and returns
\* the number of its maximal runs of equal entries, which is the number of
\* distinct entries it was given.
C7_CountsDistinct ==
    [][mainpc = "finalize" =>
          /\ Sorted(results')
          /\ ret' = Runs(results')
          /\ ret' = Cardinality(Entries(results))]_vars

C7_Witness ==
    /\ Returned /\ ret = 2 /\ Len(results) = 4
    /\ results[1] = results[2] /\ results[3] = results[4]

\* C8 (as claimed): after finalization no two ledger entries are equal.
C8_NoEqualEntries ==
    Returned => \A i, j \in DOMAIN results : i # j => results[i] # results[j]

\* C8 (amended): finalization leaves the ledger sorted and with every entry
\* it had, equal entries included; they are adjacent, not removed.
C8_SortedNotMerged ==
    [][mainpc = "finalize" =>
          /\ Sorted(results')
          /\ SameEntries(results, results')]_vars

C8_Witness ==
    /\ Returned /\ Len(results) = 2 /\ results[1] = results[2] /\ ret = 1

FinalizeStarted == mainpc = "finalize" \/ (Returned /\ ~EarlyReturnArg(n))

\* C9: when finalization starts every thread has left dfs, decremented the
\* counter and released the mutex; from then on no thread moves and the
\* ledger neither grows nor shrinks.
C9_FinalizeAfterThreads ==
    [][/\ FinalizeStarted' => (AllExited' /\ num_running' = 0 /\ local' = <<>>)
       /\ FinalizeStarted => (pcw' = pcw /\ Len(results') = Len(results))]_vars

C9_Witness ==
    mainpc = "finalize" /\ num_threads > 1 /\ Len(results) = num_threads

\* C10: for every valid n, under fair scheduling, every thread empties its
\* stack and leaves dfs, the counter reaches 0, the caller observes it and
\* solve returns.
C10_Terminates ==
    ~EarlyReturnArg(n) =>
        <>(local = <<>> /\ AllExited /\ num_running = 0 /\ done /\ Returned)

C10_Witness ==
    Returned /\ done /\ num_running = 0 /\ AllExited /\ num_threads > 1 /\ n = 3

\* the number of leaves thread tid reaches below frame f, applied to the
\* state <<availIn, oIn>> of its parent
RECURSIVE LeafCount(_, _, _, _, _, _)
LeafCount(nn, w, tid, f, availIn, oIn) ==
    LET k == f[1]
        m == f[2]
        o == PlaceOpenings(nn, k, m, f[3], oIn)
        avail == PlaceAvail(m, availIn)
        k1 == ToInt8(k + 1)
        ch == Children(nn, k1, avail, o, PlaceNumOpen(m, f[4]))
        below(i) == IF i \in DOMAIN ch
                    THEN LeafCount(nn, w, tid, ch[i], avail, o)
                    ELSE 0
    IN  IF k1 = two_n(nn) THEN 1
        ELSE IF OtherThreadsNode(nn, w, tid, k1, o, avail) THEN 0
        ELSE below(1) + below(2) + below(3) + below(4)

\* the number of leaves the threads 0..t reach, all together
RECURSIVE LeavesOfThreads(_, _, _)
LeavesOfThreads(nn, w, t) ==
    IF t < 0 THEN 0
    ELSE LeafCount(nn, w, t, Frame(0, 0 - 1, 0, 0), FullAvail(nn),
                   [e \in {0, 1} |-> 0])
             + LeavesOfThreads(nn, w, t - 1)

\* thread t is between a lock() and the unlock() that follows it
InCriticalSection(t) ==
    pcw[t] \in {"push_back", "unlock", "decrement", "unlock_done"}

CallerInCriticalSection == mainpc \in {"read", "unlock"}

\* the threads that have decremented the counter
Finished == {t \in DOMAIN pcw : pcw[t] \in {"unlock_done", "exited"}}

MutexState ==
    /\ \A t \in DOMAIN pcw : InCriticalSection(t) => mtx = t
    /\ CallerInCriticalSection => mtx = Caller
    /\ Cardinality({t \in DOMAIN pcw : InCriticalSection(t)})
           + (IF CallerInCriticalSection THEN 1 ELSE 0) <= 1
    /\ (mainpc # "entry" /\ ~EarlyReturnArg(n)) =>
           /\ num_running = num_threads - Cardinality(Finished)
           /\ num_running >= 0
    /\ AllExited => Len(results) = LeavesOfThreads(n, num_threads, num_threads - 1)

MutexStep ==
    /\ Len(results') =
           Len(results) + Cardinality({t \in DOMAIN pcw :
                                          pcw[t] = "push_back" /\ pcw'[t] = "unlock"})
    /\ (results' # results) => (mtx # Free \/ mainpc = "finalize")
    /\ (mainpc # "entry") =>
           /\ num_running' =
                  num_running - Cardinality({t \in DOMAIN pcw :
                                                pcw[t] = "decrement"
                                                    /\ pcw'[t] = "unlock_done"})
           /\ (num_running' # num_running) => mtx # Free
    /\ (done' # done) => mtx = Caller

\* C11: appends, decrements and the caller's read of the counter happen with
\* the mutex held by the one who acts; at most one of the threads and the
\* caller is between lock and unlock; every leaf reached adds exactly one
\* entry and every finished thread takes exactly one from the counter, which
\* is the thread count less the threads that have decremented, never
\* negative; at the end the ledger is as long as the leaves reached.
C11_MutexProtects == [](MutexState) /\ [][MutexStep]_vars

C11_Witness ==
    \E t, u \in DOMAIN pcw :
        /\ pcw[t] = "push_back" /\ mtx = t
        /\ pcw[u] = "lock"
        /\ mainpc = "lock"

\* All Langford sequences of order nn, as arrays of closing slots, by the
\* definition: value m occupies two free slots a and a + m + 1.  Values are
\* placed from m down to 1; occ is the set of slots taken so far.
RECURSIVE LangfordFrom(_, _, _, _)
LangfordFrom(nn, m, occ, pos) ==
    IF m = 0 THEN {pos}
    ELSE UNION {LangfordFrom(nn, m - 1, occ \cup {a, a + m + 1},
                             [pos EXCEPT ![m - 1] = a + m + 1]) :
                   a \in {b \in 0..(2 * nn - m - 2) :
                              b \notin occ /\ (b + m + 1) \notin occ}}

\* planar: the arcs can be put above or below the line so that no two arcs
\* of the same side cross
Planar(nn, pos) ==
    \E side \in [0..(nn - 1) -> {0, 1}] :
        \A i, j \in 0..(nn - 1) :
            side[i] = side[j] => ~Crossing([pos |-> pos], i, j)

PlanarLangford(nn) ==
    {pos \in LangfordFrom(nn, nn, {}, [i \in 0..(nn - 1) |-> Undef]) :
        Planar(nn, pos)}

\* the sequence read right to left: slot i becomes slot 2n - 1 - i, so the
\* opening slot of a value becomes its closing slot
Reversed(nn, pos) == [i \in 0..(nn - 1) |-> 2 * nn - 1 - (pos[i] - i - 2)]

\* C12: when solve has returned for a valid n, no two ledger entries are
\* reversals of each other, and of every planar Langford sequence of order n
\* and its reversal exactly one is a ledger entry.
C12_OnePerReversalClass ==
    (Returned /\ ~EarlyReturnArg(n)) =>
        /\ \A e1, e2 \in Entries(results) : e1 # Reversed(n, e2)
        /\ \A S \in PlanarLangford(n) :
               (S \in Entries(results)) # (Reversed(n, S) \in Entries(results))

C12_Witness ==
    /\ Returned /\ n = 8 /\ num_threads > 1
    /\ Cardinality(Entries(results)) = 4
    /\ Cardinality(PlanarLangford(n)) = 8
    /\ \E S \in PlanarLangford(n) :
           S \notin Entries(results) /\ Reversed(n, S) \in Entries(results)

\* the side of the first frame, push(0, -1, 0, 0): "a below-pair at position 0"
Below == 0

FramesOf(l) == {l.stack[i] : i \in DOMAIN l.stack}

\* the first frame has been applied: slot 0 is pending on side Below only
SlotZeroBelow(nn, l) ==
    /\ \A f \in FramesOf(l) : f[1] = 0 => f = Frame(0, 0 - 1, Below, 0)
    /\ l.open[2] # Undef =>
           /\ l.open[2 + Below] = 2 ^ PositionBit(nn, 0)
           /\ l.open[2 + (1 - Below)] = 0

RECURSIVE PopCount(_)
PopCount(x) == IF x = 0 THEN 0 ELSE (x % 2) + PopCount(x \div 2)

\* the node the frames of slot k were pushed by: its pending openings on
\* both sides, its close decisions, its open decisions
PendingAt(l, k) == PopCount(l.open[2 * k]) + PopCount(l.open[2 * k + 1])
ClosedAt(nn, l, k) == nn - PopCount(l.availability[k])
OpenedAt(nn, l, k) == PendingAt(l, k) + ClosedAt(nn, l, k)

\* the frames the step from l to l2 has pushed
PushedBy(l, l2) == {l2.stack[i] : i \in Len(l.stack)..Len(l2.stack)}

\* the node reached by applying the top frame of l is expanded: it is not a
\* leaf and not left to another thread
Expands(nn, w, tid, l, l2) ==
    LET k1 == ToInt8(Top(l.stack)[1] + 1)
    IN  /\ k1 # two_n(nn)
        /\ ~OtherThreadsNode(nn, w, tid, k1,
                             [e \in {0, 1} |-> l2.open[2 * k1 + e]],
                             l2.availability[k1])

\* C14 (as claimed): the count a frame carries is the number of pending
\* openings, on both sides together, of the node that pushed it.
C14_CountIsPending ==
    \A t \in DOMAIN local :
        \A f \in FramesOf(local[t]) : f[4] = PendingAt(local[t], f[1])

CountIsOpened ==
    \A t \in DOMAIN local :
        \A f \in FramesOf(local[t]) : f[4] = OpenedAt(n, local[t], f[1])

OpensPushedWhenFewerOpened ==
    \A t \in DOMAIN pcw :
        (pcw[t] = "loop" /\ pcw'[t] \in {"loop", "lock"} /\ local'[t] # local[t]) =>
            LET k1 == ToInt8(Top(local[t].stack)[1] + 1)
                opens == {f \in PushedBy(local[t], local'[t]) : f[2] = 0 - 1}
            IN  IF Expands(n, num_threads, t, local[t], local'[t])
                       /\ OpenedAt(n, local'[t], k1) < n
                THEN opens = {Frame(k1, 0 - 1, d, OpenedAt(n, local'[t], k1)) :
                                 d \in {0, 1}}
                ELSE opens = {}

\* C14 (amended): the count a frame carries is the number of pairs opened on
\* the path to the node that pushed it -- its pending openings plus its close
\* decisions -- and an expanded node pushes the two open frames, one per
\* side, exactly when that count is below n.
C14_CountIsOpened == [](CountIsOpened) /\ [][OpensPushedWhenFewerOpened]_vars

C14_Witness ==
    /\ n = 8
    /\ \E t \in DOMAIN local :
           /\ \E f \in FramesOf(local[t]) :
                  f[4] = n /\ PendingAt(local[t], f[1]) < n
           /\ \E f \in FramesOf(local[t]) :
                  f[2] = 0 - 1 /\ f[4] > PendingAt(local[t], f[1])

\* the close decisions on the path to the node that pushed the frames of
\* slot k: of its k slots, the pending ones were opened and not closed, and
\* the others were opened and closed in pairs
ClosesOnPath(l, k) == (k - PendingAt(l, k)) \div 2

AvailabilityCounts ==
    \A t \in DOMAIN local :
        \A f \in FramesOf(local[t]) :
            LET k == f[1]
                avail == local[t].availability[k]
            IN  /\ (k - PendingAt(local[t], k)) % 2 = 0
                /\ avail \in 0..FullAvail(n)
                /\ PopCount(avail) = n - ClosesOnPath(local[t], k)
                /\ f[2] >= 0 => TestBit(avail, f[2])

\* the step applies a close frame: its bit is set before and clear after,
\* and no other bit changes
CloseClearsSetBit ==
    \A t \in DOMAIN pcw :
        (pcw[t] = "loop" /\ pcw'[t] \in {"loop", "lock"} /\ local'[t] # local[t]) =>
            LET f == Top(local[t].stack)
                before == local[t].availability[f[1]]
                after == local'[t].availability[f[1] + 1]
            IN  IF f[2] >= 0
                THEN /\ TestBit(before, f[2])
                     /\ after = before - 2 ^ f[2]
                     /\ PopCount(after) = PopCount(before) - 1
                ELSE after = before

\* C15: the availability set of every node on the current path has n less
\* the number of close decisions on the path to it bits set; a close frame
\* names a value whose bit is set when the frame is applied, and applying it
\* clears that bit and no other.
C15_AvailabilityTracksCloses ==
    [](AvailabilityCounts) /\ [][CloseClearsSetBit]_vars

C15_Witness ==
    /\ n = 8
    /\ \E t \in DOMAIN local :
           \E f \in FramesOf(local[t]) :
               /\ f[2] >= 0
               /\ PopCount(local[t].availability[f[1]]) = 1
               /\ ClosesOnPath(local[t], f[1]) = n - 1

\* the decision taken at slot k of the path recorded in l: an open adds a
\* pending opening, a close removes one
OpenSlots(nn, l) ==
    {k \in 0..(2 * nn - 1) : PendingAt(l, k + 1) = PendingAt(l, k) + 1}
CloseSlots(nn, l) ==
    {k \in 0..(2 * nn - 1) : PendingAt(l, k + 1) = PendingAt(l, k) - 1}

CompletedPath(nn, l) ==
    /\ \A i \in 0..(4 * nn + 1) : l.open[i] # Undef
    /\ \A k \in 0..(2 * nn) : l.availability[k] # Undef
    /\ OpenSlots(nn, l) \cup CloseSlots(nn, l) = 0..(2 * nn - 1)
    /\ Cardinality(OpenSlots(nn, l)) = nn
    /\ Cardinality(CloseSlots(nn, l)) = nn
    /\ l.availability[2 * nn] = 0
    /\ nn - PopCount(l.availability[2 * nn]) = nn
    /\ l.open[4 * nn] = 0 /\ l.open[4 * nn + 1] = 0
    /\ {l.pos[m] : m \in 0..(nn - 1)} = CloseSlots(nn, l)

\* C16: when a thread stands at `k == two_n`, about to append, every one of
\* the 2n slots of its path holds a decision, n of them opens and n closes,
\* the availability set is empty, no opening is pending on either side, and
\* the placement names the n closing slots.
C16_LeafIsComplete ==
    \A t \in DOMAIN pcw : AtLeaf(t) => CompletedPath(n, local[t])

C16_Witness ==
    \E t \in DOMAIN pcw :
        /\ pcw[t] = "push_back" /\ n = 8
        /\ Cardinality(CloseSlots(n, local[t])) = n
        /\ local[t].availability[2 * n] = 0

\* the slots pending on side d at the node that pushed the frames of slot k
PendingSlots(nn, l, k, d) ==
    {j \in 0..(2 * nn - 1) : TestBit(l.open[2 * k + d], PositionBit(nn, j))}

\* slot j was given an open decision of side d on the path recorded in l
OpenedOn(nn, l, j, d) ==
    /\ ~TestBit(l.open[2 * j + d], PositionBit(nn, j))
    /\ TestBit(l.open[2 * j + 2 + d], PositionBit(nn, j))

SetMax(S) == CHOOSE x \in S : \A y \in S : y <= x

\* the bit index __builtin_ffsll finds in the pending set of side d
LowestBitSlot(nn, l, k, d) ==
    CHOOSE j \in 0..(2 * nn - 1) :
        PositionBit(nn, j) = ffsll(l.open[2 * k + d]) - 1

CloseFramesNameLatestOpening ==
    \A t \in DOMAIN local :
        \A f \in FramesOf(local[t]) :
            f[2] >= 0 =>
                LET k == f[1]
                    d == f[3]
                    P == PendingSlots(n, local[t], k, d)
                IN  /\ P # {}
                    /\ \A j \in P : j < k /\ OpenedOn(n, local[t], j, d)
                    /\ LowestBitSlot(n, local[t], k, d) = SetMax(P)
                    /\ f[2] = k - SetMax(P) - 2
                    /\ k - SetMax(P) - 1 = f[2] + 1

CloseRemovesLatestOpening ==
    \A t \in DOMAIN pcw :
        (pcw[t] = "loop" /\ pcw'[t] \in {"loop", "lock"} /\ local'[t] # local[t]) =>
            LET f == Top(local[t].stack)
                k == f[1]
                d == f[3]
                P == PendingSlots(n, local[t], k, d)
            IN  f[2] >= 0 =>
                    /\ PendingSlots(n, local'[t], k + 1, d) = P \ {SetMax(P)}
                    /\ local'[t].open[2 * k + 2 + (1 - d)]
                           = local[t].open[2 * k + (1 - d)]
                    /\ local'[t].pos[f[2]] = k
                    /\ local'[t].pos[f[2]] - SetMax(P) - 1 = f[2] + 1

LevelState(l, k) == <<l.open[2 * k], l.open[2 * k + 1], l.availability[k]>>

\* a step of thread t leaves every frame that stays on its stack where it
\* is, together with the state its parent produced for it
SiblingsUntouched ==
    \A t \in (DOMAIN local) \cap (DOMAIN local') :
        \A i \in 1..(Len(local[t].stack) - 1) :
            /\ i <= Len(local'[t].stack)
            /\ local'[t].stack[i] = local[t].stack[i]
            /\ LevelState(local'[t], local[t].stack[i][1])
                   = LevelState(local[t], local[t].stack[i][1])

\* the frames a step pushes are children of the node it has just written
PushedAreChildren ==
    \A t \in (DOMAIN local) \cap (DOMAIN local') :
        local'[t] # local[t] =>
            LET k1 == Top(local[t].stack)[1] + 1
            IN  \A f \in PushedBy(local[t], local'[t]) \ FramesOf(local[t]) :
                    /\ f[1] = k1
                    /\ \A e \in 1..3 : LevelState(local'[t], k1)[e] # Undef
                    /\ f[4] = OpenedAt(n, local'[t], k1)
                    /\ f[2] >= 0 =>
                           f[2] = ImpliedM(n, k1, local'[t].open[2 * k1 + f[3]])

\* value index m was closed at slot c on the path recorded in l
ClosedAtSlot(l, m, c) ==
    /\ TestBit(l.availability[c], m)
    /\ ~TestBit(l.availability[c + 1], m)

LeafRecordsOwnPath ==
    \A t \in DOMAIN pcw :
        AtLeaf(t) =>
            \A m \in 0..(n - 1) :
                /\ local[t].pos[m] \in 0..(2 * n - 1)
                /\ ClosedAtSlot(local[t], m, local[t].pos[m])

\* C18: no step touches the state that a frame still on the stack will be
\* applied to, so every frame is applied to the state its parent produced,
\* whatever subtrees were explored in between; and at a leaf pos[m] is, for
\* every value, the slot where the leaf's own path closed it.
C18_SiblingsDoNotInterfere ==
    /\ [][SiblingsUntouched /\ PushedAreChildren]_vars
    /\ [](LeafRecordsOwnPath)

C18_Witness ==
    \E t \in DOMAIN pcw :
        /\ AtLeaf(t) /\ n = 8 /\ num_threads = 1
        /\ Len(results) >= 1
        /\ local[t].pos \notin Entries(results)
        /\ local[t].stack # <<>>

\* the value of `top`: four bytes a frame
TopBytes(l) == 4 * Len(l.stack)

\* the cells the iteration that pops frame f reads and writes
OpenCells(f) == {2 * f[1], 2 * f[1] + 1, 2 * f[1] + 2, 2 * f[1] + 3}
AvailabilityCells(f) == {f[1], f[1] + 1}

\* C19: the stack of a thread never holds more than 6n frames (top never
\* exceeds the 24n bytes of the array), and the cells the frames on it make
\* the loop touch lie inside the arrays: those of `open` in 0..4n+1, those
\* of `availability` in 0..2n, those of `pos` in 0..n-1.
C19_StackAndIndicesInBounds ==
    \A t \in DOMAIN local :
        /\ Len(local[t].stack) <= 6 * n
        /\ TopBytes(local[t]) <= 24 * n
        /\ \A f \in FramesOf(local[t]) :
               /\ OpenCells(f) \subseteq DOMAIN local[t].open
               /\ OpenCells(f) \subseteq 0..(4 * n + 1)
               /\ AvailabilityCells(f) \subseteq DOMAIN local[t].availability
               /\ AvailabilityCells(f) \subseteq 0..(2 * n)
               /\ f[2] >= 0 => f[2] \in (DOMAIN local[t].pos) \cap (0..(n - 1))

C19_Witness ==
    /\ n = 8
    /\ \E t \in DOMAIN local :
           /\ Len(local[t].stack) >= n
           /\ 4 * n + 1 \in OpenCells(Top(local[t].stack))
           /\ 2 * n \in AvailabilityCells(Top(local[t].stack))

\* C20 (as claimed): for every n up to kMaxN no arithmetic of the search
\* leaves the range of its type: not the int8_t frame fields and offsets, not
\* the 32-bit availability word, not the 64-bit opening words, and not the
\* signed 64-bit product and sum of the partition hash at depth k_limit.
C20_NoOverflow ==
    \A t \in DOMAIN local : local[t].overflowed = {}

\* what does hold: only the hash overflows, and only from n = 24 on
OnlyHashOverflows ==
    \A t \in DOMAIN local :
        /\ local[t].overflowed \subseteq {"hash"}
        /\ n < 24 => local[t].overflowed = {}

WideFixtureCounts == (Returned /\ n \in FixtureArgs) => ret = known_results[n]

====
